---- MODULE Spec2Model ----
(***************************************************************************)
(* A model of two drivers of griptape:                                     *)
(*   - BaseAudioTranscriptionDriver.run, the retry/lifecycle wrapper       *)
(*     around the abstract try_run (specification SpecRun);                *)
(*   - FalkorDBGraphStoreDriver, the triplet graph store driver, together  *)
(*     with the part of the backing graph store its queries act on         *)
(*     (specifications SpecGraph, SpecRelMap, SpecEntry, SpecDelete and    *)
(*     SpecBoot).                                                          *)
(***************************************************************************)
EXTENDS Integers, Sequences, FiniteSets, TLC

VARIABLES
    \* ---- BaseAudioTranscriptionDriver.run ----
    max_attempts,   \* the retry policy's attempt budget of this driver
    runPc,          \* position of the (single) caller inside run()
    attempt,        \* number of attempts the retry iterator has handed out
    events,         \* events published on the event bus during this run()
    tryCalls,       \* number of try_run invocations during this run()
    tryResult,      \* local `result` of run(): what try_run returned
    lastExc,        \* exception raised by the most recent try_run
    runOutcome,     \* what run() surfaced to its caller
    \* ---- the backing graph store ----
    nodes,          \* id -> number of Entity nodes carrying that id
    edges,          \* <<subj id, type, obj id>> -> number of such edges
    indexes,        \* number of indexes on (Entity, id)
    relTypes,       \* relationship types of the store's schema
    propKeys,       \* property keys of the store's schema
    emptyTypeOk,    \* whether this store accepts the empty relationship type
    \* ---- FalkorDBGraphStoreDriver ----
    constructed,    \* number of driver instances constructed so far
    schema,         \* self.schema of the driver instance the callers share
    warnings,       \* number of warnings logged by the constructions
    lastOp,         \* the driver operation that ran last
    lastArgs,       \* the arguments it was called with
    repeated,       \* whether it repeated the call made just before it
    lastQueries,    \* number of store queries the last operation issued
    lastResult,     \* what the last operation returned
    \* ---- callers whose queries interleave ----
    boot,           \* the racing constructions, one record each
    call            \* the call that advances one query at a time

runVars == <<max_attempts, runPc, attempt, events, tryCalls, tryResult, lastExc, runOutcome>>
storeVars == <<nodes, edges, indexes, relTypes, propKeys, emptyTypeOk>>
driverVars == <<constructed, schema, warnings, lastOp, lastArgs, repeated, lastQueries, lastResult>>
procVars == <<boot, call>>
vars == <<runVars, storeVars, driverVars, procVars>>

(***************************************************************************)
(* Bounds and input sets                                                   *)
(***************************************************************************)
MaxAttempts == 3
MaxBeside == 1
MaxDepth == 2
MaxLimit == 2

Results == {"text1", "text2"}
Excs == {"E1", "E2"}
NoValue == "none"
\* No error message.
NoMsg == <<>>
FailedToRun == "Failed to run audio transcription"

(***************************************************************************)
(* BaseAudioTranscriptionDriver.run                                        *)
(***************************************************************************)
CountOf(seq, x) == Cardinality({i \in DOMAIN seq : seq[i] = x})

\* run() touches neither the graph store nor the graph store driver.
RunFrame == UNCHANGED <<storeVars, driverVars, procVars>>

InitRun ==
    /\ runPc = "idle"
    /\ attempt = 0
    /\ events = <<>>
    /\ tryCalls = 0
    /\ tryResult = NoValue
    /\ lastExc = NoValue
    /\ runOutcome = [kind |-> "none", value |-> NoValue]

\* A caller invokes run(): self.retrying() builds a fresh retry iterator.
Run ==
    /\ runPc \in {"idle", "returned", "raised"}
    /\ runPc' = "retrying"
    /\ attempt' = 0
    /\ events' = <<>>
    /\ tryCalls' = 0
    /\ tryResult' = NoValue
    /\ lastExc' = NoValue
    /\ runOutcome' = [kind |-> "none", value |-> NoValue]
    /\ UNCHANGED max_attempts
    /\ RunFrame

\* The retry iterator hands out the next attempt while budget remains.
RetryingNextAttempt ==
    /\ runPc = "retrying"
    /\ attempt < max_attempts
    /\ attempt' = attempt + 1
    /\ runPc' = "before_run"
    /\ UNCHANGED <<max_attempts, events, tryCalls, tryResult, lastExc, runOutcome>>
    /\ RunFrame

\* The retry iterator is exhausted: the for loop ends without a return.
RetryingExhausted ==
    /\ runPc = "retrying"
    /\ attempt >= max_attempts
    /\ runPc' = "for_else"
    /\ UNCHANGED <<max_attempts, attempt, events, tryCalls, tryResult, lastExc, runOutcome>>
    /\ RunFrame

\* A variant of before_run that publishes the start event on the first attempt only.
BeforeRunFirstAttemptOnly ==
    /\ runPc = "before_run"
    /\ events' = IF attempt = 1 THEN Append(events, "start") ELSE events
    /\ runPc' = "try_run"
    /\ UNCHANGED <<max_attempts, attempt, tryCalls, tryResult, lastExc, runOutcome>>
    /\ RunFrame

\* self.before_run(): publish StartAudioTranscriptionEvent.
BeforeRun ==
    /\ runPc = "before_run"
    /\ events' = Append(events, "start")
    /\ runPc' = "try_run"
    /\ UNCHANGED <<max_attempts, attempt, tryCalls, tryResult, lastExc, runOutcome>>
    /\ RunFrame

\* result = self.try_run(audio, prompts), the attempt succeeds.
TryRunReturns(r) ==
    /\ runPc = "try_run"
    /\ tryCalls' = tryCalls + 1
    /\ tryResult' = r
    /\ runPc' = "after_run"
    /\ UNCHANGED <<max_attempts, attempt, events, lastExc, runOutcome>>
    /\ RunFrame

\* A variant in which the exception of try_run escapes run() at once.
TryRunRaisesPropagates(e) ==
    /\ runPc = "try_run"
    /\ tryCalls' = tryCalls + 1
    /\ lastExc' = e
    /\ runOutcome' = [kind |-> "exception", value |-> e]
    /\ runPc' = "raised"
    /\ UNCHANGED <<max_attempts, attempt, events, tryResult>>
    /\ RunFrame

\* A variant in which a failed attempt publishes the finish event too.
TryRunRaisesFinish(e) ==
    /\ runPc = "try_run"
    /\ tryCalls' = tryCalls + 1
    /\ lastExc' = e
    /\ events' = Append(events, "finish")
    /\ runPc' = "retrying"
    /\ UNCHANGED <<max_attempts, attempt, tryResult, runOutcome>>
    /\ RunFrame

\* self.try_run(audio, prompts) raises e: the attempt's context manager
\* records the failure and control goes back to the retry iterator.
TryRunRaises(e) ==
    /\ runPc = "try_run"
    /\ tryCalls' = tryCalls + 1
    /\ lastExc' = e
    /\ runPc' = "retrying"
    /\ UNCHANGED <<max_attempts, attempt, events, tryResult, runOutcome>>
    /\ RunFrame

\* A variant of after_run that publishes nothing.
AfterRunSilent ==
    /\ runPc = "after_run"
    /\ runPc' = "return"
    /\ UNCHANGED <<max_attempts, attempt, events, tryCalls, tryResult, lastExc, runOutcome>>
    /\ RunFrame

\* self.after_run(): publish FinishAudioTranscriptionEvent.
AfterRun ==
    /\ runPc = "after_run"
    /\ events' = Append(events, "finish")
    /\ runPc' = "return"
    /\ UNCHANGED <<max_attempts, attempt, tryCalls, tryResult, lastExc, runOutcome>>
    /\ RunFrame

\* return result
ReturnResult ==
    /\ runPc = "return"
    /\ runOutcome' = [kind |-> "result", value |-> tryResult]
    /\ runPc' = "returned"
    /\ UNCHANGED <<max_attempts, attempt, events, tryCalls, tryResult, lastExc>>
    /\ RunFrame

\* A variant of the for-else clause that re-raises the last attempt's exception.
RaiseLastExc ==
    /\ runPc = "for_else"
    /\ runOutcome' = [kind |-> "exception", value |-> lastExc]
    /\ runPc' = "raised"
    /\ UNCHANGED <<max_attempts, attempt, events, tryCalls, tryResult, lastExc>>
    /\ RunFrame

\* else: raise Exception("Failed to run audio transcription")
RaiseFailed ==
    /\ runPc = "for_else"
    /\ runOutcome' = [kind |-> "exception", value |-> FailedToRun]
    /\ runPc' = "raised"
    /\ UNCHANGED <<max_attempts, attempt, events, tryCalls, tryResult, lastExc>>
    /\ RunFrame

NextRun ==
    \/ Run
    \/ RetryingNextAttempt
    \/ RetryingExhausted
    \/ BeforeRun
    \/ \E r \in Results : TryRunReturns(r)
    \/ \E e \in Excs : TryRunRaises(e)
    \/ AfterRun
    \/ ReturnResult
    \/ RaiseFailed

(***************************************************************************)
(* Strings are sequences of characters.  str.replace(" ", "_") and         *)
(* str.upper() are modelled character by character.                        *)
(***************************************************************************)
EmptyStr == <<>>

LowerCase == <<"a", "b", "c", "d", "e", "f", "g", "h", "i", "j", "k", "l", "m",
               "n", "o", "p", "q", "r", "s", "t", "u", "v", "w", "x", "y", "z">>
UpperCase == <<"A", "B", "C", "D", "E", "F", "G", "H", "I", "J", "K", "L", "M",
               "N", "O", "P", "Q", "R", "S", "T", "U", "V", "W", "X", "Y", "Z">>

\* str.upper() on one character: a lower-case letter becomes its capital,
\* every other character stays.
Upper(c) ==
    IF \E i \in 1..Len(LowerCase) : LowerCase[i] = c
    THEN UpperCase[CHOOSE i \in 1..Len(LowerCase) : LowerCase[i] = c]
    ELSE c

StrUpper(s) == [i \in 1..Len(s) |-> Upper(s[i])]

StrReplaceSpace(s) == [i \in 1..Len(s) |-> IF s[i] = " " THEN "_" ELSE s[i]]

\* Python truthiness of a string or a list: it is not empty.
Truthy(s) == Len(s) > 0

\* sub in s: sub occurs in s as a run of consecutive characters.
Contains(s, sub) ==
    \E i \in 0..(Len(s) - Len(sub)) : SubSeq(s, i + 1, i + Len(sub)) = sub

(***************************************************************************)
(* Inputs of the graph store driver                                        *)
(***************************************************************************)
Ids == {"a", "b", "c"}
HasParent == <<"h", "a", "s", " ", "p", "a", "r", "e", "n", "t">>
Rels == { <<"h">>, <<"H">>, <<"h", " ", "p">>, <<"H", "_", "p">>, HasParent }

\* The (subj, rel, obj) arguments upsert_triplet and delete are called with:
\* two triplets out of one subject, two spellings of one relation, and a
\* self-loop.
TripletInputs ==
    { <<"a", <<"h">>, "b">>,
      <<"a", <<"h", " ", "p">>, "c">>,
      <<"a", <<"H", "_", "p">>, "c">>,
      <<"c", HasParent, "c">> }

\* The triplets the traversed stores are built from: a cycle a -> b -> a,
\* a chain a -> b -> c and a second edge out of a.
RelMapTriplets ==
    { <<"a", <<"h">>, "b">>,
      <<"b", <<"h">>, "a">>,
      <<"b", <<"H">>, "c">>,
      <<"a", <<"h", " ", "p">>, "c">> }

\* The subjs argument of get_rel_map: None, or a list of ids.
NoneArg == [isNone |-> TRUE, list |-> <<>>]
ListArg(l) == [isNone |-> FALSE, list |-> l]
SubjInputs == {NoneArg, ListArg(<<>>), ListArg(<<"a">>), ListArg(<<"c">>), ListArg(<<"b", "a">>)}

(***************************************************************************)
(* The backing graph store.  A store value is a record                     *)
(*   nodes:    function from the ids present to the number of Entity nodes *)
(*             carrying that id;                                           *)
(*   edges:    function from the triples <<subj, type, obj>> present to    *)
(*             the number of such edges;                                   *)
(*   indexes:  number of indexes on (Entity, id);                          *)
(*   relTypes, propKeys: the relationship types and property keys the      *)
(*             store has ever been given (its schema only grows).          *)
(* Each Query... operator is the effect of one query the driver issues.    *)
(***************************************************************************)
Store == [nodes |-> nodes, edges |-> edges, indexes |-> indexes,
          relTypes |-> relTypes, propKeys |-> propKeys]

EmptyStore(ix) == [nodes |-> [x \in {} |-> 0], edges |-> [x \in {} |-> 0], indexes |-> ix,
                   relTypes |-> {}, propKeys |-> {}]

SetStore(st) ==
    /\ nodes' = st.nodes
    /\ edges' = st.edges
    /\ indexes' = st.indexes
    /\ relTypes' = st.relTypes
    /\ propKeys' = st.propKeys
    /\ UNCHANGED emptyTypeOk

Without(f, k) == [x \in (DOMAIN f) \ {k} |-> f[x]]

RECURSIVE SumOver(_, _)
SumOver(f, S) ==
    IF S = {} THEN 0
    ELSE LET x == CHOOSE y \in S : TRUE IN f[x] + SumOver(f, S \ {x})

\* Number of Entity nodes with this id.
NodeCount(st, id) == IF id \in DOMAIN st.nodes THEN st.nodes[id] ELSE 0

\* Number of edges <<subj, type, obj>>.
EdgeCount(st, t) == IF t \in DOMAIN st.edges THEN st.edges[t] ELSE 0

\* The triples with an edge that touches the node id, in either direction.
Incident(st, id) == {t \in DOMAIN st.edges : t[1] = id \/ t[3] = id}

\* CREATE (n:Entity {id: id}): adds a node whether or not one exists.
CreateNode(st, id) ==
    [st EXCEPT !.nodes = IF id \in DOMAIN st.nodes
                         THEN [st.nodes EXCEPT ![id] = @ + 1]
                         ELSE st.nodes @@ (id :> 1),
               !.propKeys = @ \cup {"id"}]

\* MERGE (n:Entity {id: id}): creates the node only if no node matches.
MergeNode(st, id) ==
    IF NodeCount(st, id) > 0 THEN st
    ELSE [st EXCEPT !.nodes = st.nodes @@ (id :> 1),
                    !.propKeys = @ \cup {"id"}]

\* MERGE (n1)-[:type]->(n2): creates the edge only if none matches.
MergeEdge(st, t) ==
    IF EdgeCount(st, t) > 0 THEN st
    ELSE [st EXCEPT !.edges = st.edges @@ (t :> 1),
                    !.relTypes = @ \cup {t[2]}]

\* CALL db.indexes() YIELD label, properties WHERE label='Entity'
\*   AND 'id' IN properties RETURN count(*)
\* An aggregate without grouping keys yields exactly one row.
QueryIndexCount(st) == << <<st.indexes>> >>

\* The store's message: Attribute 'id' is already indexed
AlreadyIndexed ==
    <<"A", "t", "t", "r", "i", "b", "u", "t", "e", " ", "'", "i", "d", "'", " ",
      "i", "s", " ", "a", "l", "r", "e", "a", "d", "y", " ", "i", "n", "d", "e", "x", "e", "d">>

\* "already indexed" in str(e)
MentionsAlreadyIndexed(msg) ==
    Contains(msg, <<"a", "l", "r", "e", "a", "d", "y", " ", "i", "n", "d", "e", "x", "e", "d">>)

\* CREATE INDEX FOR (n:Entity) ON (n.id): an error if the index exists.
QueryCreateIndex(st) ==
    IF st.indexes > 0
    THEN [store |-> st, error |-> AlreadyIndexed]
    ELSE [store |-> [st EXCEPT !.indexes = 1], error |-> NoMsg]

\* MERGE (n1:Entity {id:$subj}) MERGE (n2:Entity {id:$obj}) MERGE (n1)-[:type]->(n2)
QueryMergeTriplet(st, subj, type, obj) ==
    MergeEdge(MergeNode(MergeNode(st, subj), obj), <<subj, type, obj>>)

\* MATCH (n1:Entity)-[r:type]->(n2:Entity)
\*   WHERE n1.id = $subj AND n2.id = $obj DELETE r
QueryDeleteRel(st, subj, type, obj) ==
    [st EXCEPT !.edges = Without(st.edges, <<subj, type, obj>>)]

\* MATCH (n:Entity) WHERE n.id = $entity DELETE n
\* Deleting a node deletes its incoming and outgoing edges with it.
QueryDeleteEntity(st, entity) ==
    [st EXCEPT !.nodes = Without(st.nodes, entity),
               !.edges = [t \in (DOMAIN st.edges) \ Incident(st, entity) |-> st.edges[t]]]

\* MATCH (n1:Entity)--() WHERE n1.id = $entity RETURN count(*)
\* An aggregate without grouping keys yields exactly one row, holding 0
\* when nothing matches.
QueryCountEdges(st, entity) ==
    << << NodeCount(st, entity) * SumOver(st.edges, Incident(st, entity)) >> >>

\* The directed paths of exactly k edges out of the node start; a path is the
\* sequence of its edges and uses no edge twice.
RECURSIVE PathsOfLength(_, _, _)
PathsOfLength(st, start, k) ==
    IF k <= 1
    THEN {<<t>> : t \in {e \in DOMAIN st.edges : e[1] = start}}
    ELSE UNION { {Append(p, t) : t \in {e \in DOMAIN st.edges :
                                         /\ e[1] = p[Len(p)][3]
                                         /\ \A i \in 1..Len(p) : p[i] # e}}
                 : p \in PathsOfLength(st, start, k - 1) }

\* MATCH (n1:Entity) WHERE n1.id IN $subjs WITH n1
\*   MATCH p=(n1)-[e*1..depth]->(z) RETURN p
\* before the LIMIT is applied: the set of rows.
QueryPaths(st, subjs, depth) ==
    UNION { PathsOfLength(st, n, k) :
            n \in {subjs[i] : i \in 1..Len(subjs)} \cap DOMAIN st.nodes,
            k \in 1..depth }

\* A variant of the traversal query without its LIMIT clause.
LimitRowsAll(rows, limit) == {rows}

\* LIMIT limit: the row sets the store may answer with.
LimitRows(rows, limit) ==
    {R \in SUBSET rows :
        Cardinality(R) = IF Cardinality(rows) < limit THEN Cardinality(rows) ELSE limit}

\* CALL DB.PROPERTYKEYS()
QueryPropertyKeys(st) == st.propKeys

\* CALL DB.RELATIONSHIPTYPES()
QueryRelationshipTypes(st) == st.relTypes

InitStore ==
    \E ix \in {0, 1} : /\ nodes = EmptyStore(ix).nodes
                       /\ edges = EmptyStore(ix).edges
                       /\ indexes = ix
                       /\ relTypes = {}
                       /\ propKeys = {}

(***************************************************************************)
(* FalkorDBGraphStoreDriver                                                *)
(*                                                                         *)
(* Every query is a round trip of its own to a store that other callers    *)
(* share.  A call that issues one query, or none, is one step.  A call     *)
(* that issues several (__init__, delete, delete_node, refresh_schema and  *)
(* the get_schema that refreshes) advances one query per step, and the     *)
(* one-query calls of other callers fall between its steps.                *)
(***************************************************************************)
\* The constructions that race in SpecBoot.
BootProcs == {1, 2, 3}

\* Errors a query can raise: a ResponseError of the store, or an error of the
\* connection, which is no ResponseError.
Error(type, msg) == [type |-> type, msg |-> msg]
NoError == Error(NoValue, NoMsg)

\* A construction that has not begun.  (saw: what index_exists returned;
\* err, at: the error that left the try block and the query that raised
\* it; queries: queries issued; overlap: whether another construction was
\* under way at some moment of this one; made, schema: the instance it
\* produced and that instance's self.schema.)
BootInit == [pc |-> "init", saw |-> FALSE, err |-> NoError, at |-> NoValue,
             warned |-> FALSE, queries |-> 0, overlap |-> FALSE,
             made |-> FALSE, schema |-> EmptyStr]

\* No call of several queries is in flight, and none has just returned.
\* (op, subj, rel, obj, refresh: the call and its arguments; log: the
\* queries it has issued; pre: the store when it began; cached:
\* self.schema when it began; keys: the answer to DB.PROPERTYKEYS; snap:
\* the store as delete_rel left it; seen: what the check of obj saw;
\* beside: the number of other callers' calls that fell within it;
\* written: the triplets they upserted; overlap: whether one of them wrote
\* to the store.)
CallIdle == [pc |-> "idle", op |-> "none", subj |-> "", rel |-> EmptyStr, obj |-> "",
             refresh |-> FALSE, cached |-> EmptyStr, keys |-> {}, log |-> <<>>,
             pre |-> [nodes |-> [x \in {} |-> 0], edges |-> [x \in {} |-> 0]],
             snap |-> [nodes |-> [x \in {} |-> 0], edges |-> [x \in {} |-> 0]],
             seen |-> [exists |-> FALSE, incident |-> {}],
             beside |-> 0, written |-> {}, overlap |-> FALSE]

InitProcs ==
    /\ boot = [p \in BootProcs |-> BootInit]
    /\ call = CallIdle

GraphFrame == UNCHANGED <<runVars, boot>>

\* Records which operation is called, and with which arguments.
Called(op, args) ==
    /\ lastOp' = op
    /\ lastArgs' = args
    /\ repeated' = (lastOp = op /\ lastArgs = args)

\* The call in flight is the last one again when it returns.
Resumed(op, args) ==
    /\ lastOp' = op
    /\ lastArgs' = args
    /\ repeated' = IF lastOp = op /\ lastArgs = args THEN repeated ELSE FALSE

\* The result of a call that has not returned.
Pending == [kind |-> "pending", value |-> NoValue]

\* A call of a single step may fall within the call in flight while fewer
\* than MaxBeside have.
MayFall == call.pc = "idle" \/ call.beside < MaxBeside

\* What a call of a single step leaves of the record of the call in flight:
\* while one is in flight it notes the other caller's write; otherwise the
\* record of the call that returned before is dropped.
Beside(triplets, wrote) ==
    call' = IF call.pc = "idle"
            THEN CallIdle
            ELSE [call EXCEPT !.beside = @ + 1,
                              !.written = @ \cup triplets,
                              !.overlap = @ \/ wrote]

(***************************************************************************)
(* __init__, query by query                                                *)
(***************************************************************************)
\* A variant of index_exists that never finds the index.
IndexExistsNever(st) == FALSE

\* index_exists("id"): result.result_set[0][0] > 0
IndexExists(st) == QueryIndexCount(st)[1][1] > 0

\* The messages the injected errors carry.
UnknownCommand ==
    <<"u", "n", "k", "n", "o", "w", "n", " ", "c", "o", "m", "m", "a", "n", "d">>
ConnectionRefused ==
    <<"c", "o", "n", "n", "e", "c", "t", "i", "o", "n", " ", "r", "e", "f", "u", "s", "e", "d">>
NameAlreadyIndexed ==
    <<"A", "t", "t", "r", "i", "b", "u", "t", "e", " ", "'", "n", "a", "m", "e", "'", " ",
      "i", "s", " ", "a", "l", "r", "e", "a", "d", "y", " ", "i", "n", "d", "e", "x", "e", "d">>
ErrAlreadyIndexed == <<"E", "R", "R", " ">> \o AlreadyIndexed

\* Errors that a query of the construction raises for a reason of its own.
BootFaults == { Error("ResponseError", UnknownCommand),
                Error("ResponseError", NameAlreadyIndexed),
                Error("ResponseError", ErrAlreadyIndexed),
                Error("ConnectionError", ConnectionRefused),
                Error("ConnectionError", AlreadyIndexed) }

\* A handler that absorbs every ResponseError.
BootHandleAbsorbAll(err) ==
    IF err.type = "ResponseError" THEN "warn" ELSE "raise"

\* A handler that lets every error go.
BootHandleReraise(err) == "raise"

\* except redis.exceptions.ResponseError as e:
\*     if "already indexed" in str(e): logger.warning(...)  else: raise e
\* An error of another class is not caught.
BootHandle(err) ==
    IF err.type = "ResponseError"
    THEN IF MentionsAlreadyIndexed(err.msg) THEN "warn" ELSE "raise"
    ELSE "raise"

\* What a step of a construction leaves alone.
BootFrame == UNCHANGED <<runVars, call, schema, lastOp, lastArgs, repeated, lastQueries, lastResult>>

\* The constructions that have begun and not ended.
BootUnderWay == {q \in BootProcs : boot[q].pc \in {"create", "except", "finish"}}

\* Construction p begins: it and the constructions under way overlap.
BootBegun(p) ==
    [q \in BootProcs |->
        IF q = p THEN [boot[q] EXCEPT !.overlap = BootUnderWay # {}]
        ELSE IF q \in BootUnderWay THEN [boot[q] EXCEPT !.overlap = TRUE]
        ELSE boot[q]]

\* Construction p begins and issues the query of index_exists("id").
BootCheck(p) ==
    /\ boot[p].pc = "init"
    /\ LET found == IndexExists(Store)
       IN boot' = [BootBegun(p) EXCEPT ![p].saw = found,
                                       ![p].queries = 1,
                                       ![p].pc = IF found THEN "finish" ELSE "create"]
    /\ UNCHANGED <<storeVars, constructed, warnings>>
    /\ BootFrame

\* Construction p begins and the query of index_exists("id") raises.
BootCheckFails(p, e) ==
    /\ boot[p].pc = "init"
    /\ boot' = [BootBegun(p) EXCEPT ![p].err = e, ![p].at = "index_exists",
                                    ![p].queries = 1, ![p].pc = "except"]
    /\ UNCHANGED <<storeVars, constructed, warnings>>
    /\ BootFrame

\* Construction p, having seen no index, issues CREATE INDEX.
BootCreate(p) ==
    /\ boot[p].pc = "create"
    /\ LET r == QueryCreateIndex(Store)
       IN /\ SetStore(r.store)
          /\ boot' = IF r.error = NoMsg
                     THEN [boot EXCEPT ![p].queries = 2, ![p].pc = "finish"]
                     ELSE [boot EXCEPT ![p].err = Error("ResponseError", r.error),
                                       ![p].at = "create_index",
                                       ![p].queries = 2,
                                       ![p].pc = "except"]
    /\ UNCHANGED <<constructed, warnings>>
    /\ BootFrame

\* CREATE INDEX raises for a reason of its own.
BootCreateFails(p, e) ==
    /\ boot[p].pc = "create"
    /\ boot' = [boot EXCEPT ![p].err = e, ![p].at = "create_index",
                            ![p].queries = 2, ![p].pc = "except"]
    /\ UNCHANGED <<storeVars, constructed, warnings>>
    /\ BootFrame

\* The error leaves the try block.
BootExcept(p) ==
    /\ boot[p].pc = "except"
    /\ IF BootHandle(boot[p].err) = "warn"
       THEN /\ boot' = [boot EXCEPT ![p].warned = TRUE, ![p].pc = "finish"]
            /\ warnings' = warnings + 1
       ELSE /\ boot' = [boot EXCEPT ![p].pc = "raised"]
            /\ UNCHANGED warnings
    /\ UNCHANGED <<storeVars, constructed>>
    /\ BootFrame

\* The rest of __init__: self.schema = "" on the new instance, and the
\* query templates.
BootFinish(p) ==
    /\ boot[p].pc = "finish"
    /\ boot' = [boot EXCEPT ![p].pc = "done", ![p].made = TRUE, ![p].schema = EmptyStr]
    /\ constructed' = constructed + 1
    /\ UNCHANGED <<storeVars, warnings>>
    /\ BootFrame

(***************************************************************************)
(* upsert_triplet, upsert_node                                             *)
(***************************************************************************)
\* rel.replace(" ", "_").upper() in upsert_triplet
UpsertRelType(rel) == StrUpper(StrReplaceSpace(rel))

\* A variant of delete_rel's normalisation that does not upper-case.
DeleteRelTypeNoUpper(rel) == StrReplaceSpace(rel)

\* rel.replace(" ", "_").upper() in delete_rel
DeleteRelType(rel) == StrUpper(StrReplaceSpace(rel))

\* A variant of the upsert query that creates the nodes unconditionally.
UpsertTripletCreate(st, subj, rel, obj) ==
    MergeEdge(CreateNode(CreateNode(st, subj), obj), <<subj, UpsertRelType(rel), obj>>)

\* The store after upsert_triplet(subj, rel, obj).
UpsertTripletStore(st, subj, rel, obj) ==
    QueryMergeTriplet(st, subj, UpsertRelType(rel), obj)

\* upsert_triplet(subj, rel, obj): one query.
UpsertTriplet(subj, rel, obj) ==
    /\ constructed > 0
    /\ MayFall
    /\ SetStore(UpsertTripletStore(Store, subj, rel, obj))
    /\ Called("upsert_triplet", <<subj, rel, obj>>)
    /\ lastQueries' = 1
    /\ lastResult' = [kind |-> "None", value |-> NoValue]
    /\ Beside({<<subj, rel, obj>>}, TRUE)
    /\ UNCHANGED <<constructed, schema, warnings>>
    /\ GraphFrame

EmptyTypeError == "Invalid input: empty relationship type"

\* Whether the store runs a query that names this relationship type.  An
\* empty type, [:``], is accepted by some builds of the store and refused
\* as a syntax error by others.
QueryAcceptsType(type) == type # EmptyStr \/ emptyTypeOk

\* upsert_node(node_id): self.upsert_triplet(node_id, "", ""); return node_id
UpsertNode(node_id) ==
    /\ constructed > 0
    /\ MayFall
    /\ IF QueryAcceptsType(UpsertRelType(EmptyStr))
       THEN /\ SetStore(UpsertTripletStore(Store, node_id, EmptyStr, ""))
            /\ lastResult' = [kind |-> "str", value |-> node_id]
            /\ Beside({}, TRUE)
       ELSE /\ UNCHANGED storeVars
            /\ lastResult' = [kind |-> "raised", value |-> EmptyTypeError]
            /\ Beside({}, FALSE)
    /\ Called("upsert_node", <<node_id>>)
    /\ lastQueries' = 1
    /\ UNCHANGED <<constructed, schema, warnings>>
    /\ GraphFrame

(***************************************************************************)
(* delete, delete_node, query by query                                     *)
(***************************************************************************)
\* A check_edges that reads the count: result.result_set[0][0] > 0.
CheckEdgesPositive(st, entity) == QueryCountEdges(st, entity)[1][1] > 0

\* A check_edges that never finds an edge.
CheckEdgesNever(st, entity) == FALSE

\* check_edges(entity): bool(result.result_set)
CheckEdges(st, entity) == Truthy(QueryCountEdges(st, entity))

\* delete_rel(subj, obj, rel)
DeleteRel(st, subj, obj, rel) == QueryDeleteRel(st, subj, DeleteRelType(rel), obj)

\* if not check_edges(entity): delete_entity(entity)
DeleteIfOrphan(st, entity) ==
    IF ~CheckEdges(st, entity) THEN QueryDeleteEntity(st, entity) ELSE st

\* The store after the queries of delete(subj, rel, obj), when no other
\* caller's query falls between them.
DeleteStore(st, subj, rel, obj) ==
    DeleteIfOrphan(DeleteIfOrphan(DeleteRel(st, subj, obj, rel), subj), obj)

\* What a query sees of an entity: whether a node has the id, and the edges
\* at it.
Observed(st, entity) ==
    [exists |-> NodeCount(st, entity) > 0, incident |-> Incident(st, entity)]

\* What a query of a call in flight leaves alone.
CallFrame == UNCHANGED <<runVars, boot, constructed, warnings, lastOp, lastArgs, repeated,
                         lastQueries, lastResult>>

\* A caller enters a call of several queries.
Entered(op, args) ==
    /\ Called(op, args)
    /\ lastQueries' = 0
    /\ lastResult' = Pending
    /\ UNCHANGED <<storeVars, constructed, schema, warnings>>
    /\ GraphFrame

\* A caller enters delete(subj, rel, obj); no query is issued yet.
Delete(subj, rel, obj) ==
    /\ constructed > 0
    /\ call.pc = "idle"
    /\ call' = [CallIdle EXCEPT !.pc = "delete_rel", !.op = "delete",
                                !.subj = subj, !.rel = rel, !.obj = obj,
                                !.pre = [nodes |-> nodes, edges |-> edges]]
    /\ Entered("delete", <<subj, rel, obj>>)

\* delete_node(node_id): self.delete(node_id, "", "")
DeleteNode(node_id) ==
    /\ constructed > 0
    /\ call.pc = "idle"
    /\ call' = [CallIdle EXCEPT !.pc = "delete_rel", !.op = "delete_node",
                                !.subj = node_id, !.rel = EmptyStr, !.obj = "",
                                !.pre = [nodes |-> nodes, edges |-> edges]]
    /\ Entered("delete_node", <<node_id>>)

\* The delete() in flight issues its next query: delete_rel(subj, obj, rel),
\* then, for subj and then for obj, check_edges and, if it is falsy,
\* delete_entity.  A query the store refuses ends the call.
DeleteNextQuery ==
    /\ call.pc \in {"delete_rel", "check_subj", "delete_subj", "check_obj", "delete_obj"}
    /\ CASE call.pc = "delete_rel" ->
              IF QueryAcceptsType(DeleteRelType(call.rel))
              THEN LET st == DeleteRel(Store, call.subj, call.obj, call.rel)
                   IN /\ SetStore(st)
                      /\ call' = [call EXCEPT !.pc = "check_subj",
                                              !.log = Append(@, "delete_rel"),
                                              !.snap = [nodes |-> st.nodes, edges |-> st.edges]]
              ELSE /\ call' = [call EXCEPT !.pc = "failed",
                                           !.log = Append(@, "delete_rel")]
                   /\ UNCHANGED storeVars
         [] call.pc = "check_subj" ->
              /\ call' = [call EXCEPT !.pc = IF CheckEdges(Store, call.subj)
                                             THEN "check_obj" ELSE "delete_subj",
                                      !.log = Append(@, "check_edges")]
              /\ UNCHANGED storeVars
         [] call.pc = "delete_subj" ->
              /\ SetStore(QueryDeleteEntity(Store, call.subj))
              /\ call' = [call EXCEPT !.pc = "check_obj",
                                      !.log = Append(@, "delete_entity")]
         [] call.pc = "check_obj" ->
              /\ call' = [call EXCEPT !.pc = IF CheckEdges(Store, call.obj)
                                             THEN "done" ELSE "delete_obj",
                                      !.log = Append(@, "check_edges"),
                                      !.seen = Observed(Store, call.obj)]
              /\ UNCHANGED storeVars
         [] call.pc = "delete_obj" ->
              /\ SetStore(QueryDeleteEntity(Store, call.obj))
              /\ call' = [call EXCEPT !.pc = "done",
                                      !.log = Append(@, "delete_entity")]
    /\ UNCHANGED schema
    /\ CallFrame

\* delete() or delete_node() returns None, or lets the store's error go.
DeleteReturn ==
    /\ call.op \in {"delete", "delete_node"}
    /\ call.pc \in {"done", "failed"}
    /\ call' = [call EXCEPT !.pc = "idle"]
    /\ Resumed(call.op, IF call.op = "delete"
                        THEN <<call.subj, call.rel, call.obj>>
                        ELSE <<call.subj>>)
    /\ lastQueries' = Len(call.log)
    /\ lastResult' = IF call.pc = "failed"
                     THEN [kind |-> "raised", value |-> EmptyTypeError]
                     ELSE [kind |-> "None", value |-> NoValue]
    /\ UNCHANGED <<storeVars, constructed, schema, warnings>>
    /\ GraphFrame

(***************************************************************************)
(* get_rel_map                                                             *)
(***************************************************************************)
\* The body of the loop over record[0].edges(): [relation_1, id_1, relation_2, id_2, ...]
PathEntry(p) ==
    [i \in 1..(2 * Len(p)) |-> IF i % 2 = 1 THEN p[(i + 1) \div 2][2] ELSE p[i \div 2][3]]

\* The loop over data: rel_map maps nodes[0].id to the paths of its rows.
RelMapOf(data) ==
    [subj_id \in {p[1][1] : p \in data} |-> {PathEntry(p) : p \in {q \in data : q[1][1] = subj_id}}]

EmptyRelMap == [subj_id \in {} |-> {}]

\* A variant of get_rel_map that short-circuits on None only.
GetRelMapNoneOnly(subjs, depth, limit) ==
    /\ constructed > 0
    /\ MayFall
    /\ IF subjs.isNone
       THEN /\ lastResult' = [kind |-> "rel_map", value |-> EmptyRelMap]
            /\ lastQueries' = 0
       ELSE \E data \in LimitRows(QueryPaths(Store, subjs.list, depth), limit) :
            /\ lastResult' = [kind |-> "rel_map",
                              value |-> IF data = {} THEN EmptyRelMap ELSE RelMapOf(data)]
            /\ lastQueries' = 1
    /\ Called("get_rel_map", <<subjs, depth, limit>>)
    /\ Beside({}, FALSE)
    /\ UNCHANGED <<constructed, schema, warnings, storeVars>>
    /\ GraphFrame

\* get_rel_map(subjs, depth, limit): one query, or none.
GetRelMap(subjs, depth, limit) ==
    /\ constructed > 0
    /\ MayFall
    /\ IF subjs.isNone \/ Len(subjs.list) = 0
       THEN /\ lastResult' = [kind |-> "rel_map", value |-> EmptyRelMap]
            /\ lastQueries' = 0
       ELSE \E data \in LimitRows(QueryPaths(Store, subjs.list, depth), limit) :
            /\ lastResult' = [kind |-> "rel_map",
                              value |-> IF data = {} THEN EmptyRelMap ELSE RelMapOf(data)]
            /\ lastQueries' = 1
    /\ Called("get_rel_map", <<subjs, depth, limit>>)
    /\ Beside({}, FALSE)
    /\ UNCHANGED <<constructed, schema, warnings, storeVars>>
    /\ GraphFrame

(***************************************************************************)
(* get_schema, refresh_schema, query                                       *)
(***************************************************************************)
\* The f-string of refresh_schema.
FormatSchema(node_properties, relationships) ==
    <<"Properties: ", node_properties, "Relationships: ", relationships>>

\* The call record of a refresh that begins.
RefreshBegun(op, refresh) ==
    [CallIdle EXCEPT !.pc = "property_keys", !.op = op, !.refresh = refresh,
                     !.cached = schema, !.pre = [nodes |-> nodes, edges |-> edges]]

\* A variant of get_schema that never uses the cache.
GetSchemaAlwaysRefresh(refresh) ==
    /\ constructed > 0
    /\ call.pc = "idle"
    /\ call' = RefreshBegun("get_schema", refresh)
    /\ Entered("get_schema", <<refresh>>)

\* get_schema(refresh=...): if self.schema and not refresh: return
\* self.schema, without a query; otherwise the caller enters
\* refresh_schema().
GetSchema(refresh) ==
    /\ constructed > 0
    /\ IF Truthy(schema) /\ ~refresh
       THEN /\ MayFall
            /\ Called("get_schema", <<refresh>>)
            /\ lastQueries' = 0
            /\ lastResult' = [kind |-> "str", value |-> schema]
            /\ Beside({}, FALSE)
            /\ UNCHANGED <<storeVars, constructed, schema, warnings>>
            /\ GraphFrame
       ELSE /\ call.pc = "idle"
            /\ call' = RefreshBegun("get_schema", refresh)
            /\ Entered("get_schema", <<refresh>>)

\* A caller enters the public refresh_schema().
RefreshSchema ==
    /\ constructed > 0
    /\ call.pc = "idle"
    /\ call' = RefreshBegun("refresh_schema", TRUE)
    /\ Entered("refresh_schema", <<>>)

\* refresh_schema() issues its next query: CALL DB.PROPERTYKEYS(), then CALL
\* DB.RELATIONSHIPTYPES(), after which self.schema is assigned.
RefreshSchemaNextQuery ==
    /\ call.pc \in {"property_keys", "relationship_types"}
    /\ IF call.pc = "property_keys"
       THEN /\ call' = [call EXCEPT !.pc = "relationship_types",
                                    !.log = Append(@, "property_keys"),
                                    !.keys = QueryPropertyKeys(Store)]
            /\ UNCHANGED schema
       ELSE /\ call' = [call EXCEPT !.pc = "done",
                                    !.log = Append(@, "relationship_types")]
            /\ schema' = FormatSchema(call.keys, QueryRelationshipTypes(Store))
    /\ UNCHANGED storeVars
    /\ CallFrame

\* get_schema() returns self.schema; refresh_schema() returns None.
RefreshSchemaReturn ==
    /\ call.op \in {"get_schema", "refresh_schema"}
    /\ call.pc = "done"
    /\ call' = [call EXCEPT !.pc = "idle"]
    /\ Resumed(call.op, IF call.op = "get_schema" THEN <<call.refresh>> ELSE <<>>)
    /\ lastQueries' = Len(call.log)
    /\ lastResult' = IF call.op = "get_schema"
                     THEN [kind |-> "str", value |-> schema]
                     ELSE [kind |-> "None", value |-> NoValue]
    /\ UNCHANGED <<storeVars, constructed, schema, warnings>>
    /\ GraphFrame

\* The statements a caller hands to the public query(): the count of the
\* edges at an entity, and the removal of an entity.
QueryInputs == { [stmt |-> "count_edges", entity |-> "a"],
                 [stmt |-> "delete_entity", entity |-> "b"] }

\* query(query, params): the statement is run on the store and the result
\* set returned.
Query(q) ==
    /\ constructed > 0
    /\ MayFall
    /\ IF q.stmt = "delete_entity"
       THEN /\ SetStore(QueryDeleteEntity(Store, q.entity))
            /\ lastResult' = [kind |-> "rows", value |-> <<>>]
            /\ Beside({}, TRUE)
       ELSE /\ UNCHANGED storeVars
            /\ lastResult' = [kind |-> "rows", value |-> QueryCountEdges(Store, q.entity)]
            /\ Beside({}, FALSE)
    /\ Called("query", <<q>>)
    /\ lastQueries' = 1
    /\ UNCHANGED <<constructed, schema, warnings>>
    /\ GraphFrame

\* No construction has begun.
InitDriver ==
    /\ constructed = 0
    /\ schema = EmptyStr
    /\ warnings = 0
    /\ lastOp = "none"
    /\ lastArgs = <<>>
    /\ repeated = FALSE
    /\ lastQueries = 0
    /\ lastResult = [kind |-> "None", value |-> NoValue]

\* One driver instance has been constructed: self.schema = "".
InitConstructed ==
    /\ constructed = 1
    /\ schema = EmptyStr
    /\ warnings = 0
    /\ lastOp = "__init__"
    /\ lastArgs = <<>>
    /\ repeated = FALSE
    /\ lastQueries = 2
    /\ lastResult = [kind |-> "driver", value |-> NoValue]

(***************************************************************************)
(* Specifications                                                          *)
(***************************************************************************)
\* The audio transcription driver, for every attempt budget up to MaxAttempts.
InitRunSpec ==
    /\ max_attempts \in 1..MaxAttempts
    /\ InitRun
    /\ InitStore /\ indexes = 0
    /\ emptyTypeOk = TRUE
    /\ InitDriver
    /\ InitProcs

SpecRun == InitRunSpec /\ [][NextRun]_vars

\* run() is synchronous code: the caller's thread keeps executing it, and
\* try_run and the backoff sleep between attempts come back.
SpecRunLive == SpecRun /\ WF_vars(NextRun)

\* The calls of the callers that share one driver instance.
NextGraph ==
    \/ \E t \in TripletInputs : UpsertTriplet(t[1], t[2], t[3])
    \/ \E t \in TripletInputs : Delete(t[1], t[2], t[3])
    \/ DeleteNextQuery
    \/ DeleteReturn
    \/ \E refresh \in BOOLEAN : GetSchema(refresh)
    \/ RefreshSchema
    \/ RefreshSchemaNextQuery
    \/ RefreshSchemaReturn
    \/ \E q \in QueryInputs : Query(q)

\* The state a construction against an empty store leaves: the store is
\* indexed and the instance's schema cache is empty.
InitGraph ==
    /\ max_attempts = 1
    /\ InitRun
    /\ InitStore /\ indexes = 1
    /\ emptyTypeOk = TRUE
    /\ InitConstructed
    /\ InitProcs

SpecGraph == InitGraph /\ [][NextGraph]_vars

\* The traversal query of the graph store driver, over the stores that
\* upsert_triplet and delete build from RelMapTriplets.
NextRelMap ==
    \/ \E t \in RelMapTriplets : UpsertTriplet(t[1], t[2], t[3])
    \/ \E t \in RelMapTriplets : Delete(t[1], t[2], t[3])
    \/ DeleteNextQuery
    \/ DeleteReturn
    \/ \E subjs \in SubjInputs, depth \in 1..MaxDepth, limit \in 0..MaxLimit :
          GetRelMap(subjs, depth, limit)

SpecRelMap == InitGraph /\ [][NextRelMap]_vars

\* The entry-oriented operations, beside a triplet of the ordinary kind, on
\* a store of either build.
EntryTriplets == { <<"a", <<"h">>, "b">> }

NextEntry ==
    \/ \E node_id \in Ids : UpsertNode(node_id)
    \/ \E node_id \in Ids : DeleteNode(node_id)
    \/ \E t \in EntryTriplets : UpsertTriplet(t[1], t[2], t[3])
    \/ \E t \in EntryTriplets : Delete(t[1], t[2], t[3])
    \/ DeleteNextQuery
    \/ DeleteReturn

InitEntry ==
    /\ max_attempts = 1
    /\ InitRun
    /\ InitStore /\ indexes = 1
    /\ emptyTypeOk \in BOOLEAN
    /\ InitConstructed
    /\ InitProcs

SpecEntry == InitEntry /\ [][NextEntry]_vars

\* The triplets of the delete() that another caller writes beside: an edge
\* a -> b, a second edge out of a, and a self-loop.
DeleteTriplets ==
    { <<"a", <<"h">>, "b">>,
      <<"a", <<"h", " ", "p">>, "c">>,
      <<"c", <<"h", " ", "p">>, "c">> }

\* delete() query by query, with other callers' upserts beside it.
NextDelete ==
    \/ \E t \in DeleteTriplets : UpsertTriplet(t[1], t[2], t[3])
    \/ \E t \in DeleteTriplets : Delete(t[1], t[2], t[3])
    \/ DeleteNextQuery
    \/ DeleteReturn

SpecDelete == InitGraph /\ [][NextDelete]_vars

\* Constructions racing against one store, query by query.
NextBoot ==
    \/ \E p \in BootProcs : BootCheck(p)
    \/ \E p \in BootProcs, e \in BootFaults : BootCheckFails(p, e)
    \/ \E p \in BootProcs : BootCreate(p)
    \/ \E p \in BootProcs, e \in BootFaults : BootCreateFails(p, e)
    \/ \E p \in BootProcs : BootExcept(p)
    \/ \E p \in BootProcs : BootFinish(p)

\* A store that starts empty, with or without the index, and no driver.
InitBoot ==
    /\ max_attempts = 1
    /\ InitRun
    /\ InitStore
    /\ emptyTypeOk = TRUE
    /\ InitDriver
    /\ InitProcs

SpecBoot == InitBoot /\ [][NextBoot]_vars

(***************************************************************************)
(* Claims about BaseAudioTranscriptionDriver.run (SpecRun)                 *)
(***************************************************************************)
Starts == CountOf(events, "start")
Finishes == CountOf(events, "finish")

\* C1 as stated: a run() that returns after earlier attempts failed returns
\* the successful attempt's result and has published exactly one start event
\* and exactly one finish event.
C1_OneStartOneFinish ==
    (runPc = "returned" /\ attempt > 1) =>
        /\ runOutcome = [kind |-> "result", value |-> tryResult]
        /\ Starts = 1
        /\ Finishes = 1

\* C1, amended: a run() that returns, returns the result of its last (the
\* successful) attempt and has published exactly one finish event and one
\* start event per attempt made.
C1_StartPerAttemptOneFinish ==
    runPc = "returned" =>
        /\ runOutcome.kind = "result"
        /\ runOutcome.value = tryResult
        /\ runOutcome.value \in Results
        /\ tryCalls = attempt
        /\ Starts = attempt
        /\ Finishes = 1

\* try_run failed twice and succeeded on the third attempt.
C1_Witness ==
    /\ runPc = "returned"
    /\ attempt = 3
    /\ lastExc \in Excs
    /\ runOutcome.value = "text2"

\* C2: when run() raises, try_run has been invoked exactly max_attempts
\* times, max_attempts start events and no finish event have been published.
C2_RetryExhaustion ==
    runPc = "raised" =>
        /\ tryCalls = max_attempts
        /\ Starts = max_attempts
        /\ Finishes = 0
        /\ runOutcome.kind = "exception"

\* Every one of three allowed attempts failed.
C2_Witness ==
    /\ runPc = "raised"
    /\ max_attempts = 3
    /\ tryCalls = 3
    /\ Len(events) = 3

\* C10: when the budget is exhausted run() raises the generic error, which
\* is not the exception the last try_run raised.
C10_GenericFailure ==
    runPc = "raised" =>
        /\ runOutcome = [kind |-> "exception", value |-> FailedToRun]
        /\ lastExc \in Excs
        /\ runOutcome.value # lastExc

\* The last of two attempts raised E2 and the caller got the generic error.
C10_Witness ==
    /\ runPc = "raised"
    /\ max_attempts = 2
    /\ lastExc = "E2"
    /\ runOutcome.value = FailedToRun

RunTerminal == runPc \in {"returned", "raised"}

\* C11: every run() reaches a terminal state, where it has surfaced exactly
\* one outcome (a result when it returned, a failure when it raised) and
\* none before; a failed attempt is followed by another attempt while budget
\* remains, and run() raises only with the budget spent.
C11_OneTerminalOutcome ==
    /\ [](RunTerminal => /\ runOutcome.kind \in {"result", "exception"}
                         /\ (runPc = "returned") = (runOutcome.kind = "result")
                         /\ (runPc = "raised") = (runOutcome.kind = "exception"))
    /\ [](~RunTerminal => runOutcome.kind = "none")
    /\ [](runPc = "raised" => attempt = max_attempts /\ tryCalls = max_attempts)
    /\ (runPc = "retrying") ~> RunTerminal
    /\ (runPc = "retrying" /\ tryCalls > 0 /\ attempt < max_attempts)
           ~> (runPc = "try_run" /\ attempt = tryCalls + 1)

\* A failed first attempt was followed by a second one, which returned.
C11_Witness ==
    /\ runPc = "returned"
    /\ max_attempts = 3
    /\ attempt = 2
    /\ lastExc = "E1"
    /\ runOutcome = [kind |-> "result", value |-> "text1"]

\* C16: a start event is published only when every earlier attempt's try_run
\* has ended and nothing has finished; try_run is invoked only right after
\* its own attempt's start event; the finish event is published only after
\* the current attempt's try_run returned, once, and as the last event.
C16_AttemptOrder ==
    [][/\ Starts' > Starts =>
            /\ Starts' = Starts + 1
            /\ tryCalls = Starts
            /\ Finishes = 0
            /\ tryCalls' = tryCalls
       /\ tryCalls' > tryCalls =>
            /\ tryCalls' = tryCalls + 1
            /\ Starts = tryCalls + 1
            /\ events[Len(events)] = "start"
            /\ events' = events
       /\ Finishes' > Finishes =>
            /\ runPc = "after_run"
            /\ tryResult \in Results
            /\ Finishes = 0
            /\ tryCalls = attempt
            /\ events' = Append(events, "finish")
            /\ runPc' = "return"
    ]_vars

\* Two attempts, the first failed: start, start, finish.
C16_Witness ==
    /\ runPc = "returned"
    /\ tryCalls = 2
    /\ events = <<"start", "start", "finish">>


(***************************************************************************)
(* Claims about FalkorDBGraphStoreDriver                                   *)
(***************************************************************************)
\* The edge-type token the specification gives each relation label:
\* spaces replaced by underscores, upper-cased.
NormalForm ==
    (<<"h">> :> <<"H">>) @@ (<<"H">> :> <<"H">>)
    @@ (<<"h", " ", "p">> :> <<"H", "_", "P">>) @@ (<<"H", "_", "p">> :> <<"H", "_", "P">>)
    @@ (<<"h", "a", "s", " ", "p", "a", "r", "e", "n", "t">>
           :> <<"H", "A", "S", "_", "P", "A", "R", "E", "N", "T">>)

HasIncidentEdge(id) == \E t \in DOMAIN edges : t[1] = id \/ t[3] = id
NodeCopies(f, id) == IF id \in DOMAIN f THEN f[id] ELSE 0

\* No call is between two of its queries.
Quiet == call.pc = "idle"

\* The call of several queries op has just returned.
Returned(op) == call.pc = "idle" /\ call.op = op /\ lastOp = op

\* The step is a call of a single step: no call begins, issues one of its
\* queries or returns.
SingleStep ==
    \/ call.pc = "idle" /\ call'.pc = "idle"
    \/ call.pc # "idle" /\ call'.pc = call.pc /\ call'.log = call.log

\* C3: once delete(s, r, o) has completed, with no other caller writing
\* meanwhile, an endpoint s or o without any incident edge no longer exists
\* as a node.
C3_OrphanCleanup ==
    (Returned("delete") /\ ~call.overlap) =>
        \A e \in {call.subj, call.obj} : ~HasIncidentEdge(e) => e \notin DOMAIN nodes

\* C4: no id has more than one node and no triple more than one edge, and in
\* the state upsert_triplet(subj, rel, obj) leaves, the same call again
\* leaves the store as it is.
C4_IdempotentUpsert ==
    /\ \A id \in DOMAIN nodes : nodes[id] = 1
    /\ \A t \in DOMAIN edges : edges[t] = 1
    /\ (lastOp = "upsert_triplet" /\ Quiet) =>
           UpsertTripletStore(Store, lastArgs[1], lastArgs[2], lastArgs[3]) = Store

\* upsert_triplet("a", "h", "b") was called twice in a row on an empty store.
C4_Witness ==
    /\ lastOp = "upsert_triplet"
    /\ Quiet
    /\ repeated
    /\ lastArgs = <<"a", <<"h">>, "b">>
    /\ DOMAIN edges = {<<"a", <<"H">>, "b">>}
    /\ DOMAIN nodes = {"a", "b"}

BootEnded(p) == boot[p].pc \in {"done", "raised"}

\* Construction p ran alone, from its first query to its end, and no query
\* of it failed for a reason of its own.
BootAlone(p) == BootEnded(p) /\ ~boot[p].overlap /\ boot[p].err \notin BootFaults

\* C5 as stated: a construction that runs alone against the store with the
\* index does not raise, and logs a warning.
C5_SecondConstructionWarns ==
    \A p \in BootProcs : (BootAlone(p) /\ boot[p].saw) =>
        /\ boot[p].pc = "done"
        /\ boot[p].warned

\* C5, amended: a construction that runs alone does not raise and logs no
\* warning, and leaves the store with one index; when it finds the index
\* it issues the index_exists query only.
C5_NoRaiseNoWarning ==
    \A p \in BootProcs : BootAlone(p) =>
        /\ boot[p].pc = "done"
        /\ boot[p].err = NoError
        /\ ~boot[p].warned
        /\ indexes = 1
        /\ boot[p].saw => boot[p].queries = 1

\* Two constructions, one after the other; the second found the index.
C5_Witness ==
    /\ constructed = 2
    /\ warnings = 0
    /\ \A p \in BootProcs : boot[p].pc # "init" => BootAlone(p) /\ boot[p].pc = "done"
    /\ \E p \in BootProcs : boot[p].pc = "done" /\ ~boot[p].saw /\ boot[p].queries = 2
    /\ \E p \in BootProcs : boot[p].pc = "done" /\ boot[p].saw /\ boot[p].queries = 1

\* C6: a delete(s, r, o) that has returned, with no other caller writing
\* meanwhile, has removed the edge (s, normalize(r), o) and no other edge,
\* kept an endpoint that still has an incident edge, removed an endpoint
\* that has none, and left every other node as it was.
C6_DeleteFrame ==
    (Returned("delete") /\ ~call.overlap) =>
        LET s == call.subj
            o == call.obj
            t == <<s, NormalForm[call.rel], o>>
            before == call.pre
        IN /\ DOMAIN edges = (DOMAIN before.edges) \ {t}
           /\ \A e \in DOMAIN edges : edges[e] = before.edges[e]
           /\ DOMAIN nodes \subseteq DOMAIN before.nodes
           /\ \A n \in (DOMAIN before.nodes) \ {s, o} : NodeCopies(nodes, n) = before.nodes[n]
           /\ \A n \in {s, o} \cap DOMAIN before.nodes :
                 IF HasIncidentEdge(n)
                 THEN NodeCopies(nodes, n) = before.nodes[n]
                 ELSE n \notin DOMAIN nodes

\* C7: every stored type is the normal form of a label; in the state
\* upsert_triplet(s, rel1, o) leaves, the edge is stored under the normal
\* form of rel1; and a delete(s, rel2, o) that has returned, with no other
\* caller writing meanwhile, has removed the edge stored under the normal
\* form of rel2, and no other.
C7_Normalization ==
    /\ \A t \in DOMAIN edges : \E r \in Rels : t[2] = NormalForm[r]
    /\ (lastOp = "upsert_triplet" /\ Quiet) =>
          <<lastArgs[1], NormalForm[lastArgs[2]], lastArgs[3]>> \in DOMAIN edges
    /\ (Returned("delete") /\ ~call.overlap) =>
          edges = Without(call.pre.edges, <<call.subj, NormalForm[call.rel], call.obj>>)

\* delete("a", "H_p", "c") removed the edge stored as H_P and left the edge
\* stored as HAS_PARENT.
C7_Witness ==
    /\ Returned("delete")
    /\ ~call.overlap
    /\ <<call.subj, call.rel, call.obj>> = <<"a", <<"H", "_", "p">>, "c">>
    /\ <<"a", <<"H", "_", "P">>, "c">> \in DOMAIN call.pre.edges
    /\ <<"a", <<"H", "_", "P">>, "c">> \notin DOMAIN edges
    /\ <<"c", <<"H", "A", "S", "_", "P", "A", "R", "E", "N", "T">>, "c">> \in DOMAIN edges

\* C8: a step of get_rel_map with subjs None or [] returns an empty mapping,
\* issues no query and leaves the store as it was.
C8_EmptySubjects ==
    [][(/\ SingleStep
        /\ lastOp' = "get_rel_map"
        /\ (lastArgs'[1].isNone \/ Len(lastArgs'[1].list) = 0)) =>
            /\ lastResult'.kind = "rel_map"
            /\ DOMAIN lastResult'.value = {}
            /\ lastQueries' = 0
            /\ UNCHANGED storeVars
    ]_vars

\* get_rel_map([], 2, 2) on a store in which a has outgoing paths.
C8_Witness ==
    /\ lastOp = "get_rel_map"
    /\ lastArgs = <<ListArg(<<>>), 2, 2>>
    /\ \E t \in DOMAIN edges : t[1] = "a"
    /\ lastQueries = 0
    /\ DOMAIN lastResult.value = {}

\* C9: get_schema enters refresh_schema only when the cache is empty or
\* refresh is set, and then returns, after the two schema queries, the
\* schema they gave; otherwise it is a step that issues no query and
\* returns the cache, which it leaves as it is; and a filled cache changes
\* only by the assignment that ends a refresh, whatever other calls are
\* made.
C9_SchemaCache ==
    /\ [](call.op = "get_schema" => (call.cached = EmptyStr \/ call.refresh))
    /\ [](Returned("get_schema") =>
             /\ lastQueries = 2
             /\ lastResult.value = schema
             /\ schema[2] = call.keys
             /\ ~call.overlap => schema = FormatSchema(propKeys, relTypes))
    /\ [][(SingleStep /\ lastOp' = "get_schema") =>
             /\ schema # EmptyStr
             /\ ~lastArgs'[1]
             /\ lastQueries' = 0
             /\ lastResult'.value = schema
             /\ schema' = schema
       ]_vars
    /\ [][(schema # EmptyStr /\ schema' # schema) => call.pc = "relationship_types"]_vars

\* get_schema(refresh=False) answered from a cache that no longer matches
\* the store's relationship types.
C9_Witness ==
    /\ lastOp = "get_schema"
    /\ Quiet
    /\ lastArgs = <<FALSE>>
    /\ lastQueries = 0
    /\ schema # EmptyStr
    /\ lastResult.value = schema
    /\ schema[4] # relTypes

\* Whether entry = [relation_1, node_1, ..., relation_k, node_k] follows
\* existing edges key -> node_1 -> ... -> node_k.
FollowsPath(key, entry) ==
    \A j \in 1..(Len(entry) \div 2) :
        <<IF j = 1 THEN key ELSE entry[2 * j - 2], entry[2 * j - 1], entry[2 * j]>> \in DOMAIN edges

\* C12: what get_rel_map returns for a non-empty subjs: every key is a
\* requested id with an outgoing edge, every entry under it alternates
\* relation and node along an existing path of 1..depth edges out of the
\* key, and there are at most limit entries in all.
C12_RelMapShape ==
    (lastOp = "get_rel_map" /\ Quiet /\ ~lastArgs[1].isNone /\ Len(lastArgs[1].list) > 0) =>
        LET subjs == lastArgs[1].list
            depth == lastArgs[2]
            limit == lastArgs[3]
            rel_map == lastResult.value
        IN /\ lastResult.kind = "rel_map"
           /\ \A key \in DOMAIN rel_map :
                 /\ \E i \in 1..Len(subjs) : subjs[i] = key
                 /\ \E t \in DOMAIN edges : t[1] = key
                 /\ rel_map[key] # {}
                 /\ \A entry \in rel_map[key] :
                       /\ Len(entry) % 2 = 0
                       /\ Len(entry) \div 2 \in 1..depth
                       /\ FollowsPath(key, entry)
           /\ SumOver([key \in DOMAIN rel_map |-> Cardinality(rel_map[key])], DOMAIN rel_map) <= limit

\* get_rel_map(["b", "a"], 2, 2) answered with one path per subject, one of
\* them two edges long.
C12_Witness ==
    /\ lastOp = "get_rel_map"
    /\ Quiet
    /\ lastArgs = <<ListArg(<<"b", "a">>), 2, 2>>
    /\ DOMAIN lastResult.value = {"a", "b"}
    /\ \E key \in {"a", "b"} : \E entry \in lastResult.value[key] : Len(entry) = 4

\* C15: a get_rel_map call that gets past the empty-subjs check with a
\* limit or a depth that is not positive is rejected with an error, without
\* a query.
C15_RejectsNonPositive ==
    (/\ lastOp = "get_rel_map"
     /\ ~lastArgs[1].isNone /\ Len(lastArgs[1].list) > 0
     /\ (lastArgs[2] <= 0 \/ lastArgs[3] <= 0)) =>
        /\ lastResult.kind = "raised"
        /\ lastQueries = 0

\* C13: a step of upsert_node(node_id) that returns, returns node_id, leaves
\* a node with that id, and adds no other node and no edge.
C13_BareNode ==
    [][(SingleStep /\ lastOp' = "upsert_node" /\ lastResult'.kind = "str") =>
        LET node_id == lastArgs'[1]
        IN /\ lastResult'.value = node_id
           /\ node_id \in DOMAIN nodes'
           /\ DOMAIN nodes' = (DOMAIN nodes) \cup {node_id}
           /\ \A n \in DOMAIN nodes : nodes'[n] = nodes[n]
           /\ edges' = edges
    ]_vars

\* C20: when upsert_node(n) has run on a store without a node n, the
\* queries of the delete_node(n) that follows leave the nodes and edges the
\* store had before the upsert_node.
C20_EntryRoundTrip ==
    [][(/\ SingleStep
        /\ lastOp' = "upsert_node"
        /\ lastResult'.kind = "str"
        /\ lastArgs'[1] \notin DOMAIN nodes) =>
        LET created == [nodes |-> nodes', edges |-> edges', indexes |-> indexes',
                        relTypes |-> relTypes', propKeys |-> propKeys']
            after == DeleteStore(created, lastArgs'[1], EmptyStr, "")
        IN /\ after.nodes = nodes
           /\ after.edges = edges
    ]_vars

\* The messages that say that an index exists already.
AlreadyIndexedMessages == {AlreadyIndexed, NameAlreadyIndexed, ErrAlreadyIndexed}

BootAlreadyIndexed(p) ==
    boot[p].err.type = "ResponseError" /\ boot[p].err.msg \in AlreadyIndexedMessages

\* C14: a construction that has ended raised exactly when an error other
\* than a ResponseError saying "already indexed" escaped the index check or
\* creation; it logged a warning exactly when the error was that one, and
\* then it completed; the completed constructions, and only they, produced
\* a driver.
C14_OnlyAlreadyIndexedAbsorbed ==
    /\ \A p \in BootProcs : BootEnded(p) =>
          /\ boot[p].pc = "raised" <=> (boot[p].err # NoError /\ ~BootAlreadyIndexed(p))
          /\ boot[p].warned <=> BootAlreadyIndexed(p)
          /\ boot[p].warned => boot[p].pc = "done"
    /\ \A p \in BootProcs : boot[p].made <=> boot[p].pc = "done"
    /\ constructed = Cardinality({p \in BootProcs : boot[p].pc = "done"})
    /\ warnings = Cardinality({p \in BootProcs : boot[p].warned})

C14_Witness ==
    /\ \E p \in BootProcs : boot[p].pc = "raised" /\ boot[p].err.type = "ResponseError"
    /\ \E p \in BootProcs : boot[p].pc = "done" /\ boot[p].warned
    /\ constructed = 2

BootStarted == {p \in BootProcs : boot[p].pc # "init"}
BootSawNone == {p \in BootStarted : ~boot[p].saw}

\* C19: when two or more constructions have begun and all of them have
\* ended, none was hit by an error other than the store's "already
\* indexed", and the store had no index at the first check, then all of
\* them completed, the store has exactly one index, and of those that saw
\* no index all but one absorbed "already indexed" with a warning.
C19_RaceLeavesOneIndex ==
    (/\ Cardinality(BootStarted) >= 2
     /\ \A p \in BootStarted : BootEnded(p) /\ boot[p].err \notin BootFaults
     /\ BootSawNone # {}) =>
        /\ \A p \in BootStarted : boot[p].pc = "done"
        /\ indexes = 1
        /\ Cardinality({p \in BootStarted : boot[p].warned}) = Cardinality(BootSawNone) - 1
        /\ \A p \in BootStarted : boot[p].warned <=> BootAlreadyIndexed(p)

C19_Witness ==
    /\ Cardinality(BootStarted) = 2
    /\ \A p \in BootStarted : boot[p].pc = "done" /\ ~boot[p].saw /\ boot[p].overlap
    /\ \E p \in BootStarted : boot[p].warned
    /\ indexes = 1

\* C17: in a delete(subj, rel, obj) the first query is delete_rel, so that
\* every check_edges comes after it; and when no other caller wrote
\* meanwhile, the check of obj saw obj as delete_rel left it: the same
\* existence and the same incident edges, whatever the check of subj did,
\* also when subj = obj.
C17_DeleteOrder ==
    call.op = "delete" =>
        /\ call.log # <<>> => call.log[1] = "delete_rel"
        /\ \A i \in 1..Len(call.log) : i > 1 => call.log[i] # "delete_rel"
        /\ (call.pc \in {"delete_obj", "done", "idle"} /\ ~call.overlap) =>
              call.seen = Observed(call.snap, call.obj)

C17_Witness ==
    /\ call.op = "delete"
    /\ call.pc = "done"
    /\ call.subj = call.obj
    /\ ~call.overlap
    /\ <<call.subj, <<"H", "_", "P">>, call.obj>> \in DOMAIN call.pre.edges
    /\ call.log = <<"delete_rel", "check_edges", "check_edges">>
    /\ call.seen = [exists |-> TRUE, incident |-> {}]

\* The edge a triplet is stored as.
StoredEdge(t) == <<t[1], NormalForm[t[2]], t[3]>>

\* C18: when a delete(a, r, b) has issued all its queries, every triplet
\* (a2, r2, c) another caller upserted while it ran, other than the triplet
\* being deleted, is in the store: nodes a2 and c and the edge
\* (a2, normalize(r2), c).
C18_ConcurrentUpsertSurvives ==
    (call.op = "delete" /\ call.pc \in {"done", "idle"}) =>
        \A t \in call.written :
            StoredEdge(t) # StoredEdge(<<call.subj, call.rel, call.obj>>) =>
                /\ t[1] \in DOMAIN nodes
                /\ t[3] \in DOMAIN nodes
                /\ StoredEdge(t) \in DOMAIN edges

C18_Witness ==
    /\ call.op = "delete"
    /\ call.pc = "idle"
    /\ <<call.subj, call.rel, call.obj>> = <<"a", <<"h">>, "b">>
    /\ <<"a", <<"H">>, "b">> \in DOMAIN call.pre.edges
    /\ call.written = { <<"a", <<"h", " ", "p">>, "c">> }
    /\ ~HasIncidentEdge("b")
    /\ <<"a", <<"H", "_", "P">>, "c">> \in DOMAIN edges

====
